---- MODULE Spec2Model ----
(***************************************************************************)
(* Model of the Slack inquiry bot (src/main.py): the due-date normalizer,  *)
(* the webhook handler slack_bot_handler, and write_to_spreadsheet with    *)
(* its read-then-append access to the shared spreadsheet.                  *)
(*                                                                         *)
(* Strings are sequences of one-character tokens.  Japanese characters and *)
(* full-width digits are written as ASCII tokens:                          *)
(*   GATSU 月  CHUU 中  MATSU 末  MA ま  DE で  KON 今  RAI 来  SHUU 週    *)
(*   NICHI 日  GO 後  I_ 以  NAI 内  F0..F9 ０..９  SUP2 ²  NL newline     *)
(***************************************************************************)
EXTENDS Integers, Sequences, FiniteSets, TLC

VARIABLES
    store,         \* the worksheet: a sequence of rows, each a sequence of 14 cells
    origin,        \* history, parallel to store: which request appended the row, as which
                   \* record of its batch, and how many rows that request had read
    nreq,          \* number of requests received so far
    h,             \* per handler instance: the locals of slack_bot_handler and write_to_spreadsheet
    due_date_str,  \* normalizer harness: the argument of normalize_due_date
    now,           \* normalizer harness: datetime.now()
    due_result     \* normalizer harness: the outcome of the call, or Pending

vars == <<store, origin, nreq, h, due_date_str, now, due_result>>

handlerVars == <<store, origin, nreq, h>>

normVars == <<due_date_str, now, due_result>>

-----------------------------------------------------------------------------
(* Python values *)

None == [kind |-> "None"]
Str(s) == [kind |-> "str", val |-> s]
Raise(e) == [kind |-> "raise", exc |-> e]
Pending == [kind |-> "pending"]

\* Python truthiness of an Optional[str]
Truthy(v) == v.kind = "str" /\ v.val # <<>>

-----------------------------------------------------------------------------
(* Characters *)

AsciiDigits == <<"0", "1", "2", "3", "4", "5", "6", "7", "8", "9">>
FullWidthDigits == <<"F0", "F1", "F2", "F3", "F4", "F5", "F6", "F7", "F8", "F9">>

Range(f) == {f[i] : i \in DOMAIN f}

\* the character class [０-９0-9] of month_pattern and days_pattern
IsPatternDigit(c) == c \in Range(AsciiDigits) \cup Range(FullWidthDigits)

\* \d of the re module on str: any Unicode decimal digit
IsReDigit(c) == c \in Range(AsciiDigits) \cup Range(FullWidthDigits)

\* str.isdigit(): decimal digits and digit-like characters such as superscripts
IsDigitChar(c) == c \in Range(AsciiDigits) \cup Range(FullWidthDigits) \cup {"SUP2"}

\* characters int() accepts as decimal digits
IsDecimalChar(c) == c \in Range(AsciiDigits) \cup Range(FullWidthDigits)

DigitVal(c) == CHOOSE v \in 0..9 : AsciiDigits[v + 1] = c \/ FullWidthDigits[v + 1] = c

\* str.translate(str.maketrans('０１２３４５６７８９', '0123456789'))
TranslateChar(c) == IF c \in Range(FullWidthDigits) THEN AsciiDigits[DigitVal(c) + 1] ELSE c
Translate(s) == [i \in 1..Len(s) |-> TranslateChar(s[i])]

LowerChar(c) == CASE c = "N" -> "n" [] c = "U" -> "u" [] c = "L" -> "l"
                  [] c = "O" -> "o" [] c = "E" -> "e" [] OTHER -> c
\* str.lower()
Lower(s) == [i \in 1..Len(s) |-> LowerChar(s[i])]

\* s[i:j] with 1-based inclusive bounds
Slice(s, i, j) == SubSeq(s, i, j)

\* whether the literal lit occurs in s at position i
LitAt(s, i, lit) == i >= 1 /\ i + Len(lit) - 1 <= Len(s) /\ Slice(s, i, i + Len(lit) - 1) = lit

\* whether one of the alternatives occurs in s at position i
AltAt(s, i, alts) == \E a \in alts : LitAt(s, i, a)

\* re.search of a literal followed by an alternation (optional when opt)
SearchLit(s, lit, alts, opt) ==
    \E i \in 1..Len(s) : LitAt(s, i, lit) /\ (opt \/ AltAt(s, i + Len(lit), alts))

\* last index of the maximal run of pattern digits starting at i
RunEnd(s, i) == CHOOSE j \in i..Len(s) :
    /\ \A k \in i..j : IsPatternDigit(s[k])
    /\ (j = Len(s) \/ ~IsPatternDigit(s[j + 1]))

\* ([０-９0-9]+)<unit>(alt|...) matches with its first group starting at i
NumMatchAt(s, i, unit, alts) ==
    /\ IsPatternDigit(s[i])
    /\ LitAt(s, RunEnd(s, i) + 1, <<unit>>)
    /\ AltAt(s, RunEnd(s, i) + 2, alts)

\* re.search(r'([０-９0-9]+)<unit>(...)'): start of the leftmost match, 0 if none
NumSearch(s, unit, alts) ==
    IF \E i \in 1..Len(s) : NumMatchAt(s, i, unit, alts)
    THEN CHOOSE i \in 1..Len(s) :
            /\ NumMatchAt(s, i, unit, alts)
            /\ \A k \in 1..(i - 1) : ~NumMatchAt(s, k, unit, alts)
    ELSE 0

\* match.group(1) of the match starting at i
Group1(s, i) == Slice(s, i, RunEnd(s, i))

\* a digit string without its leading zeros
RECURSIVE StripZeros(_)
StripZeros(ds) == IF ds # <<>> /\ DigitVal(ds[1]) = 0 THEN StripZeros(Tail(ds)) ELSE ds

\* int() of a non-empty string of decimal digits
RECURSIVE IntOf(_)
IntOf(ds) == IF ds = <<>> THEN 0 ELSE IntOf(SubSeq(ds, 1, Len(ds) - 1)) * 10 + DigitVal(ds[Len(ds)])

\* str(n) / f"{n:0<width>d}" for n >= 0
RECURSIVE DigitsOf(_)
DigitsOf(n) == IF n < 10 THEN <<AsciiDigits[n + 1]>> ELSE Append(DigitsOf(n \div 10), AsciiDigits[(n % 10) + 1])
RECURSIVE PadZeros(_, _)
PadZeros(ds, width) == IF Len(ds) >= width THEN ds ELSE PadZeros(<<"0">> \o ds, width)
Fmt(n, width) == PadZeros(DigitsOf(n), width)

-----------------------------------------------------------------------------
(* Calendar: calendar.monthrange, datetime.weekday, datetime + timedelta *)

IsLeap(y) == y % 4 = 0 /\ (y % 100 # 0 \/ y % 400 = 0)

DaysInMonthTable == <<31, 28, 31, 30, 31, 30, 31, 31, 30, 31, 30, 31>>

\* a month length that ignores leap years
LastDay_NoLeap(y, m) == DaysInMonthTable[m]

\* monthrange(y, m)[1]
LastDay(y, m) == IF m = 2 /\ IsLeap(y) THEN 29 ELSE DaysInMonthTable[m]

DaysBeforeYear(y) == (y - 1) * 365 + (y - 1) \div 4 - (y - 1) \div 100 + (y - 1) \div 400

RECURSIVE DaysBeforeMonth(_, _)
DaysBeforeMonth(y, m) == IF m = 1 THEN 0 ELSE DaysBeforeMonth(y, m - 1) + LastDay(y, m - 1)

\* date.toordinal()
ToOrdinal(dt) == DaysBeforeYear(dt.y) + DaysBeforeMonth(dt.y, dt.m) + dt.d

\* date.isoweekday() in place of date.weekday(): Monday = 1 .. Sunday = 7
Weekday_Iso(dt) == ((ToOrdinal(dt) + 6) % 7) + 1

\* date.weekday(): Monday = 0 .. Sunday = 6
Weekday(dt) == (ToOrdinal(dt) + 6) % 7

MaxOrdinal == 3652059
MaxDeltaDays == 999999999

\* date.fromordinal(n) for 1 <= n <= MaxOrdinal (the algorithm of datetime._ord2ymd)
FromOrdinal(ord) ==
    LET n0 == ord - 1
        n400 == n0 \div 146097
        r400 == n0 % 146097
        n100 == r400 \div 36524
        r100 == r400 % 36524
        n4 == r100 \div 1461
        r4 == r100 % 1461
        n1 == r4 \div 365
        y == n400 * 400 + n100 * 100 + n4 * 4 + n1 + 1
    IN  IF n1 = 4 \/ n100 = 4
        THEN [y |-> y - 1, m |-> 12, d |-> 31]
        ELSE LET r == ord - DaysBeforeYear(y)
                 m == CHOOSE k \in 1..12 :
                        DaysBeforeMonth(y, k) < r /\ r <= DaysBeforeMonth(y, k) + LastDay(y, k)
             IN  [y |-> y, m |-> m, d |-> r - DaysBeforeMonth(y, m)]

\* f"{year}-{month:02d}-{day:02d}" and strftime("%Y-%m-%d")
FormatDate(y, m, d) == Fmt(y, 4) \o <<"-">> \o Fmt(m, 2) \o <<"-">> \o Fmt(d, 2)

\* (now + timedelta(days=n)).strftime("%Y-%m-%d"); timedelta() and the addition raise
\* OverflowError when n or the resulting date is out of range
PlusDays(dt, tooBig, n) ==
    IF tooBig \/ n > MaxDeltaDays THEN Raise("OverflowError")
    ELSE IF ToOrdinal(dt) + n > MaxOrdinal THEN Raise("OverflowError")
    ELSE LET r == FromOrdinal(ToOrdinal(dt) + n) IN Str(FormatDate(r.y, r.m, r.d))

-----------------------------------------------------------------------------
(* normalize_due_date *)

MonthSuffixes == {<<"CHUU">>, <<"MATSU">>, <<"MA", "DE">>}
ThisMonthSuffixes == {<<"MATSU">>, <<"CHUU">>, <<"MA", "DE">>}
WeekSuffixes == {<<"MATSU">>, <<"MA", "DE">>}
DaySuffixes == {<<"GO">>, <<"I_", "NAI">>, <<"MA", "DE">>}

\* re.match(r'^\d{4}-\d{2}-\d{2}$', s); $ also matches before a final newline
IsIsoDate(s) ==
    /\ Len(s) = 10 \/ (Len(s) = 11 /\ s[11] = "NL")
    /\ \A i \in {1, 2, 3, 4, 6, 7, 9, 10} : IsReDigit(s[i])
    /\ s[5] = "-" /\ s[8] = "-"

\* the "N月(中|末|まで)" rule: the date, or Pending when the rule does not return
MonthRule(s, dt) ==
    LET i == NumSearch(s, "GATSU", MonthSuffixes)
    IN  IF i = 0 THEN Pending
        ELSE LET month_str == StripZeros(Translate(Group1(s, i)))
                 group2 == RunEnd(s, i) + 2
             IN  IF Len(month_str) \in 1..2 /\ IntOf(month_str) >= 1 /\ IntOf(month_str) <= 12
                 THEN IF LitAt(s, group2, <<"MATSU">>)
                      THEN Str(FormatDate(dt.y, IntOf(month_str), LastDay(dt.y, IntOf(month_str))))
                      ELSE IF AltAt(s, group2, {<<"CHUU">>, <<"MA", "DE">>})
                      THEN Str(FormatDate(dt.y, IntOf(month_str), LastDay(dt.y, IntOf(month_str))))
                      ELSE Pending
                 ELSE Pending

\* the "来月" rule
NextMonthRule(dt) ==
    LET next_month == IF dt.m + 1 > 12 THEN 1 ELSE dt.m + 1
        next_year == IF dt.m + 1 > 12 THEN dt.y + 1 ELSE dt.y
    IN  Str(FormatDate(next_year, next_month, LastDay(next_year, next_month)))

\* the "N日(後|以内|まで)" rule: int() of the digits, then now + timedelta(days=days);
\* only ValueError is caught around it
DaysRule(s, dt) ==
    LET i == NumSearch(s, "NICHI", DaySuffixes)
    IN  IF i = 0 THEN Pending
        ELSE LET days_str == StripZeros(Translate(Group1(s, i)))
                 tooBig == Len(days_str) > 9
             IN  PlusDays(dt, tooBig, IF tooBig THEN 0 ELSE IntOf(days_str))

normalize_due_date(v, dt) ==
    IF ~Truthy(v) \/ Lower(v.val) \in {<<"n", "u", "l", "l">>, <<"n", "o", "n", "e">>, <<>>}
    THEN None
    ELSE IF IsIsoDate(v.val) THEN v
    ELSE IF MonthRule(v.val, dt) # Pending THEN MonthRule(v.val, dt)
    ELSE IF SearchLit(v.val, <<"KON", "GATSU">>, ThisMonthSuffixes, FALSE)
    THEN Str(FormatDate(dt.y, dt.m, LastDay(dt.y, dt.m)))
    ELSE IF SearchLit(v.val, <<"RAI", "GATSU">>, ThisMonthSuffixes, TRUE)
    THEN NextMonthRule(dt)
    ELSE IF SearchLit(v.val, <<"RAI", "SHUU">>, WeekSuffixes, TRUE)
    THEN PlusDays(dt, FALSE, (7 - Weekday(dt)) + 6)
    ELSE IF SearchLit(v.val, <<"KON", "SHUU">>, WeekSuffixes, FALSE)
    THEN PlusDays(dt, FALSE, 6 - Weekday(dt))
    ELSE IF DaysRule(v.val, dt) # Pending THEN DaysRule(v.val, dt)
    ELSE v

-----------------------------------------------------------------------------
(* Bounds of the model *)

MaxRequests == 2      \* requests received in one behaviour
MaxBatch == 2         \* records the language model returns for one message

\* the handler instances that may run at the same time
Procs == {1, 2}

-----------------------------------------------------------------------------
(* Records, batches and rows *)

NoneTag == "<None>"   \* a null entry of a tags array
ACCT == "ACCT"        \* the tag "アカウント管理"
List(s) == [kind |-> "list", val |-> s]

Email == Str(<<"a", "@", "b">>)
Name == Str(<<"T">>)

\* what the language model may return as one entry
RecAccount == [target_name |-> Name, target_email |-> Email, details |-> None,
               tags |-> List(<<ACCT, NoneTag, "Slack">>), due_date |-> None]
RecNoEmail == [target_name |-> Name, target_email |-> None, details |-> None,
               tags |-> List(<<"t1", ACCT>>), due_date |-> None]
RecManyTags == [target_name |-> None, target_email |-> Str(<<>>), details |-> None,
                tags |-> List(<<"t1", "", "t3", "t4", "t5", "t6">>),
                due_date |-> Str(<<"3", "NICHI", "GO">>)]
RecFarDue == [target_name |-> Name, target_email |-> None, details |-> None,
              tags |-> List(<<>>),
              due_date |-> Str(<<"9", "9", "9", "9", "9", "9", "9", "NICHI", "GO">>)]
RecordPool == {RecAccount, RecNoEmail, RecManyTags, RecFarDue}

SeqsUpTo(S, n) == UNION {[1..k -> S] : k \in 0..n}
Batches == SeqsUpTo(RecordPool, MaxBatch)

\* datetime.now() while a request is handled
HandlerNows == {[y |-> 2024, m |-> 1, d |-> 30]}

TagSlots == 5

\* the cell a value becomes in the sheet (None is written as an empty cell)
CellOf(v) == IF v.kind = "str" THEN v.val ELSE <<>>

HeaderRow == <<<<"N", "o">>, <<>>, "h", "h", "h", "h", "h", "h", "h", <<>>, <<>>, <<>>, <<>>, "h">>
DataRow(c) == <<c, <<>>, "", "", "", "", "", "", "", <<>>, <<>>, <<>>, <<>>, "">>

\* the sheets a behaviour may start from: a header row, then rows already present
InitialStores == {
    <<HeaderRow>>,
    <<HeaderRow, DataRow(<<"x">>), DataRow(<<" ", "7", " ">>), DataRow(<<>>)>>,
    <<HeaderRow, DataRow(<<"1", "2">>), DataRow(<<"-", "2", "0">>), DataRow(<<"SUP2">>)>>,
    <<HeaderRow, DataRow(<<"F9">>), DataRow(<<"3">>)>> }

\* str.strip()
RECURSIVE LStrip(_)
LStrip(s) == IF s # <<>> /\ s[1] = " " THEN LStrip(Tail(s)) ELSE s
RECURSIVE RStrip(_)
RStrip(s) == IF s # <<>> /\ s[Len(s)] = " " THEN RStrip(SubSeq(s, 1, Len(s) - 1)) ELSE s
Strip(s) == RStrip(LStrip(s))

\* str.isdigit()
IsDigitStr(s) == s # <<>> /\ \A i \in 1..Len(s) : IsDigitChar(s[i])

Max(a, b) == IF a >= b THEN a ELSE b

\* a scan that forgets strip(): a padded number is not recognised
ScanRow_NoStrip(row, acc) ==
    IF row # <<>> /\ row[1] # <<>>
    THEN IF IsDigitStr(row[1]) /\ \A i \in 1..Len(row[1]) : IsDecimalChar(row[1][i])
         THEN Max(acc, IntOf(row[1]))
         ELSE acc
    ELSE acc

\* one iteration of the loop over existing_rows[1:]
ScanRow(row, acc) ==
    IF row # <<>> /\ row[1] # <<>>
    THEN LET no_str == Strip(row[1])
         IN  IF IsDigitStr(no_str)
             THEN IF \A i \in 1..Len(no_str) : IsDecimalChar(no_str[i])
                  THEN Max(acc, IntOf(no_str))
                  ELSE acc      \* int() raises ValueError: continue
             ELSE acc
    ELSE acc

\* rows[k..] scanned with the running maximum acc
RECURSIVE ScanFrom(_, _, _)
ScanFrom(rows, k, acc) == IF k > Len(rows) THEN acc ELSE ScanFrom(rows, k + 1, ScanRow(rows[k], acc))

\* a scan that trusts the last row to hold the largest number
\* the number of data rows taken for the largest number
MaxInquiryNo_RowCount(rows) == IF Len(rows) > 1 THEN Len(rows) - 1 ELSE 0

MaxInquiryNo_LastRow(rows) == IF Len(rows) > 1 THEN ScanRow(rows[Len(rows)], 0) ELSE 0

\* max_inquiry_no after the scan of existing_rows: the header row is skipped
MaxInquiryNo(rows) == IF Len(rows) > 1 THEN ScanFrom(rows, 2, 0) ELSE 0

\* numbering that forgets the + 1
InquiryNo_OffByOne(max_no, idx) == max_no + idx

\* inquiry_no = max_inquiry_no + idx + 1, idx the 0-based index in the batch
InquiryNo(max_no, idx) == max_no + idx + 1

\* a row position that forgets the + 1
WrittenRow_NoPlusOne(rows, written) == Len(rows) + Len(written)

\* written_row = len(existing_rows) + len(written_row_numbers) + 1
WrittenRow(rows, written) == Len(rows) + Len(written) + 1

TagTruthy(t) == t # NoneTag /\ t # ""

\* tags compacted before padding: the empty entries are dropped, not blanked
TagList_Compact(tags) ==
    LET kept == SelectSeq(tags, TagTruthy)
    IN  [i \in 1..TagSlots |-> IF i <= Len(kept) THEN kept[i] ELSE ""]

\* tag_list = [tags[i] if i < len(tags) and tags[i] else "" for i in range(5)]
TagList(tags) == [i \in 1..TagSlots |-> IF i <= Len(tags) /\ TagTruthy(tags[i]) THEN tags[i] ELSE ""]

\* row_data as the sheet stores it
RowData(inquiry_no, ts, c, rec, msg) ==
    LET tag_list == TagList(rec.tags.val)
    IN  <<DigitsOf(inquiry_no), FormatDate(ts.y, ts.m, ts.d), c.inquirer_name, c.slack_url,
          tag_list[1], tag_list[2], tag_list[3], tag_list[4], tag_list[5],
          CellOf(rec.target_name), CellOf(rec.target_email), CellOf(rec.due_date),
          CellOf(rec.details), msg>>

\* written_inquiry_nos as built after the loop
WrittenInquiryNos(max_no, n) == [i \in 1..n |-> InquiryNo(max_no, i - 1)]

-----------------------------------------------------------------------------
(* extract_info_with_gemini: normalization of the parsed entries *)

NormalizeItem(rec, dt) ==
    IF Truthy(rec.due_date) THEN normalize_due_date(rec.due_date, dt) ELSE rec.due_date

NormalizeRaises(b, dt) == \E i \in 1..Len(b) : NormalizeItem(b[i], dt).kind = "raise"

NormalizeBatch(b, dt) == [i \in 1..Len(b) |-> [b[i] EXCEPT !.due_date = NormalizeItem(b[i], dt)]]

-----------------------------------------------------------------------------
(* slack_bot_handler: validation of the extracted list *)

HasAccountTag(rec) == rec.tags.kind = "list" /\ \E i \in 1..Len(rec.tags.val) : rec.tags.val[i] = ACCT

\* a check that looks at the first entry only
Validate_FirstOnly(b) ==
    IF b = <<>> THEN "empty"
    ELSE IF HasAccountTag(b[1]) /\ ~Truthy(b[1].target_email) THEN "need_email"
    ELSE "ok"

\* the first rejection the two checks find: "empty", "need_email", or "ok"
Validate(b) ==
    IF b = <<>> THEN "empty"
    ELSE IF \E i \in 1..Len(b) : HasAccountTag(b[i]) /\ ~Truthy(b[i].target_email)
    THEN "need_email"
    ELSE "ok"

-----------------------------------------------------------------------------
(* Requests *)

Absent == "<absent>"   \* a header or JSON key that is not there

\* request.headers.get("X-Slack-Retry-Num")
RetryHeaders == {Absent, "", "1"}

Payload(t, c, e, long) == [type |-> t, challenge |-> c, event |-> e, long |-> long]

\* request.get_json(silent=True)
NoPayload == Payload(Absent, Absent, Absent, FALSE)
Payloads ==
    {NoPayload, Payload("block_actions", Absent, Absent, FALSE)}
    \cup {Payload("url_verification", c, Absent, FALSE) : c \in {Absent, "", "ch"}}
    \cup {Payload("event_callback", Absent, "app_mention", long) : long \in BOOLEAN}
    \cup {Payload("event_callback", Absent, "message", FALSE)}

\* signature_verifier is None, or what is_valid() answers
Signatures == {"unconfigured", "valid", "invalid"}

\* the requests tried: every header with every payload, a rejected signature with
\* every payload, and URL verification without a configured verifier
Requests == {r \in [retry : RetryHeaders, payload : Payloads, sig : Signatures] :
                \/ r.sig = "valid"
                \/ r.sig = "invalid" /\ r.retry = Absent
                \/ r.sig = "unconfigured" /\ r.retry = Absent /\ r.payload.type = "url_verification"}
NoRequest == [retry |-> Absent, payload |-> NoPayload, sig |-> "unconfigured"]

\* truthiness of a header or JSON string value
Present(v) == v # Absent /\ v # ""

\* inquirer_name and slack_url after the users_info / team_info lookups
Ctxs == {[inquirer_name |-> "display_name", slack_url |-> "workspace_url"]}
NoCtx == [inquirer_name |-> "", slack_url |-> ""]

Text == "text"         \* the message text with the mention removed

NoDate == [y |-> 1, m |-> 1, d |-> 1]
Resp(body, status) == [body |-> body, status |-> status]
NoResp == Resp("", 0)

\* the signature verified before URL verification is answered
Front_SignatureFirst(r) ==
    IF Present(r.retry) THEN "retry"
    ELSE IF r.payload = NoPayload THEN "invalid_request"
    ELSE IF r.sig = "invalid" THEN "invalid_signature"
    ELSE IF r.payload.type = "url_verification"
    THEN IF Present(r.payload.challenge) THEN "challenge" ELSE "missing_challenge"
    ELSE IF r.payload.type # "event_callback" THEN "unsupported"
    ELSE IF r.payload.event # "app_mention" THEN "ignored"
    ELSE IF r.payload.long THEN "too_long"
    ELSE "mention"

\* the branch of slack_bot_handler a request takes before extraction
Front(r) ==
    IF Present(r.retry) THEN "retry"
    ELSE IF r.payload # NoPayload /\ r.payload.type = "url_verification"
    THEN IF Present(r.payload.challenge) THEN "challenge" ELSE "missing_challenge"
    ELSE IF r.payload = NoPayload THEN "invalid_request"
    ELSE IF r.sig = "invalid" THEN "invalid_signature"
    ELSE IF r.payload.type # "event_callback" THEN "unsupported"
    ELSE IF r.payload.event # "app_mention" THEN "ignored"
    ELSE IF r.payload.long THEN "too_long"
    ELSE "mention"

-----------------------------------------------------------------------------
(* The state machine *)

Idle == [pc |-> "idle", reqid |-> 0, req |-> NoRequest, ctx |-> NoCtx, batch |-> <<>>,
         today |-> NoDate, existing_rows |-> <<>>, max_inquiry_no |-> 0,
         written_row_numbers |-> <<>>, written_inquiry_nos |-> <<>>,
         sends |-> <<>>, fault |-> {}, resp |-> NoResp]

Preexisting == [req |-> 0, idx |-> 0, nread |-> 0]

InitHandler(st) ==
    /\ store = st
    /\ origin = [j \in 1..Len(st) |-> Preexisting]
    /\ nreq = 0
    /\ h = [p \in Procs |-> Idle]

NormIdle ==
    /\ due_date_str = None
    /\ now = NoDate
    /\ due_result = Pending

Init == (\E st \in InitialStores : InitHandler(st)) /\ NormIdle

\* a request arrives at an idle instance
Begin(p, r) == [h[p] EXCEPT !.reqid = nreq + 1, !.req = r]

CanReceive(p) == h[p].pc = "idle" /\ nreq < MaxRequests

\* the handler returns (body, status)
Return(l, body, status) == [l EXCEPT !.pc = "done", !.resp = Resp(body, status)]

\* send_slack_reply is attempted
Sent(l, kind, ok) == [l EXCEPT !.sends = Append(@, <<kind, ok>>)]

\* an exception propagates to the except clause of the extraction block
Failed(l, kind) == [l EXCEPT !.pc = "failed", !.fault = @ \cup {kind}]

\* lines 376-379: a retry of Slack is acknowledged and skipped
RetrySkip(p) ==
    /\ CanReceive(p)
    /\ \E r \in Requests :
        /\ Front(r) = "retry"
        /\ h' = [h EXCEPT ![p] = Return(Begin(p, r), "", 200)]
    /\ nreq' = nreq + 1
    /\ UNCHANGED <<store, origin, normVars>>

\* lines 386-394: URL verification
UrlVerification(p) ==
    /\ CanReceive(p)
    /\ \E r \in Requests :
        \/ /\ Front(r) = "challenge"
           /\ h' = [h EXCEPT ![p] = Return(Begin(p, r), r.payload.challenge, 200)]
        \/ /\ Front(r) = "missing_challenge"
           /\ h' = [h EXCEPT ![p] = Return(Begin(p, r), "Missing challenge", 400)]
    /\ nreq' = nreq + 1
    /\ UNCHANGED <<store, origin, normVars>>

\* lines 397-417, 572: requests answered without processing
Dismiss(p) ==
    /\ CanReceive(p)
    /\ \E r \in Requests :
        \/ /\ Front(r) = "invalid_request"
           /\ h' = [h EXCEPT ![p] = Return(Begin(p, r), "Invalid request", 400)]
        \/ /\ Front(r) = "invalid_signature"
           /\ h' = [h EXCEPT ![p] = Return(Begin(p, r), "Invalid signature", 401)]
        \/ /\ Front(r) \in {"unsupported", "ignored"}
           /\ h' = [h EXCEPT ![p] = Return(Begin(p, r), "OK", 200)]
    /\ nreq' = nreq + 1
    /\ UNCHANGED <<store, origin, normVars>>

\* lines 433-437, 574-576: the text is too long; a failed send reaches the outer except
TooLong(p) ==
    /\ CanReceive(p)
    /\ \E r \in Requests, ok \in BOOLEAN :
        /\ Front(r) = "too_long"
        /\ h' = [h EXCEPT ![p] =
                    IF ok THEN Return(Sent(Begin(p, r), "too_long", ok), "OK", 200)
                    ELSE Return(Sent(Begin(p, r), "too_long", ok), "Internal Server Error", 500)]
    /\ nreq' = nreq + 1
    /\ UNCHANGED <<store, origin, normVars>>

\* lines 420-478: a mention, one of the requests R, is accepted for extraction
MentionOf(p, R) ==
    /\ CanReceive(p)
    /\ \E r \in R, c \in Ctxs :
        /\ Front(r) = "mention"
        /\ h' = [h EXCEPT ![p] = [Begin(p, r) EXCEPT !.pc = "extract", !.ctx = c]]
    /\ nreq' = nreq + 1
    /\ UNCHANGED <<store, origin, normVars>>

Mention(p) == MentionOf(p, Requests)

\* lines 136-222, 235-240: the model call or json.loads raises
ExtractFault(p) ==
    /\ h[p].pc = "extract"
    /\ \E kind \in {"llm", "parse"} : h' = [h EXCEPT ![p] = Failed(@, kind)]
    /\ UNCHANGED <<store, origin, nreq, normVars>>

\* lines 202-233: the model answers one of the lists B; every due_date is normalized
ExtractOf(p, B) ==
    /\ h[p].pc = "extract"
    /\ \E b \in B, dt \in HandlerNows :
        h' = [h EXCEPT ![p] =
                IF NormalizeRaises(b, dt) THEN Failed(@, "normalize")
                ELSE [@ EXCEPT !.pc = "validate", !.batch = NormalizeBatch(b, dt), !.today = dt]]
    /\ UNCHANGED <<store, origin, nreq, normVars>>

Extract(p) == ExtractOf(p, Batches)

\* lines 485-497: the batch is rejected and the requester told why
RejectBatch(p) ==
    /\ h[p].pc = "validate"
    /\ Validate(h[p].batch) # "ok"
    /\ \E ok \in BOOLEAN :
        h' = [h EXCEPT ![p] =
                IF ok THEN Return(Sent(@, Validate(h[p].batch), ok), "OK", 200)
                ELSE Failed(Sent(@, Validate(h[p].batch), ok), "send")]
    /\ UNCHANGED <<store, origin, nreq, normVars>>

\* line 500: the batch goes on to write_to_spreadsheet
AcceptBatch(p) ==
    /\ h[p].pc = "validate"
    /\ Validate(h[p].batch) = "ok"
    /\ h' = [h EXCEPT ![p].pc = "read"]
    /\ UNCHANGED <<store, origin, nreq, normVars>>

\* lines 257-270, 274: opening the sheet or get_all_values() raises
ReadFault(p) ==
    /\ h[p].pc = "read"
    /\ \E kind \in {"open", "read"} : h' = [h EXCEPT ![p] = Failed(@, kind)]
    /\ UNCHANGED <<store, origin, nreq, normVars>>

\* lines 274-292: all rows are read and the maximum inquiry number taken
ReadRows(p) ==
    /\ h[p].pc = "read"
    /\ h' = [h EXCEPT ![p] = [@ EXCEPT !.pc = "append", !.existing_rows = store,
                                        !.max_inquiry_no = MaxInquiryNo(store),
                                        !.written_row_numbers = <<>>]]
    /\ UNCHANGED <<store, origin, nreq, normVars>>

\* the record the loop of lines 295-324 is at
NextIdx(l) == Len(l.written_row_numbers)
InLoop(l) == l.pc = "append" /\ NextIdx(l) < Len(l.batch)

\* a write that removes the rows it appended when append_row raises
AppendFault_Rollback(p) ==
    /\ InLoop(h[p])
    /\ h' = [h EXCEPT ![p] = Failed(@, "append")]
    /\ store' = SubSeq(store, 1, Len(store) - NextIdx(h[p]))
    /\ origin' = SubSeq(origin, 1, Len(origin) - NextIdx(h[p]))
    /\ UNCHANGED <<nreq, normVars>>

\* line 320: append_row raises
AppendFault(p) ==
    /\ InLoop(h[p])
    /\ h' = [h EXCEPT ![p] = Failed(@, "append")]
    /\ UNCHANGED <<store, origin, nreq, normVars>>

\* lines 295-324: one record becomes a row at the end of the sheet
AppendRow(p) ==
    /\ InLoop(h[p])
    /\ LET l == h[p]
           idx == NextIdx(l)
           inquiry_no == InquiryNo(l.max_inquiry_no, idx)
       IN  /\ store' = Append(store, RowData(inquiry_no, l.today, l.ctx, l.batch[idx + 1], Text))
           /\ origin' = Append(origin, [req |-> l.reqid, idx |-> idx + 1, nread |-> Len(l.existing_rows)])
           /\ h' = [h EXCEPT ![p].written_row_numbers =
                        Append(@, WrittenRow(l.existing_rows, l.written_row_numbers))]
    /\ UNCHANGED <<nreq, normVars>>

\* lines 326-332: write_to_spreadsheet returns
ReturnRows(p) ==
    /\ h[p].pc = "append"
    /\ NextIdx(h[p]) = Len(h[p].batch)
    /\ h' = [h EXCEPT ![p] = [@ EXCEPT !.pc = "reply",
                 !.written_inquiry_nos = WrittenInquiryNos(h[p].max_inquiry_no, Len(h[p].batch))]]
    /\ UNCHANGED <<store, origin, nreq, normVars>>

\* lines 502-558: the sheet id is looked up (a failure is swallowed, gid = 0) and the
\* confirmation sent
Reply(p) ==
    /\ h[p].pc = "reply"
    /\ \E gid_ok \in BOOLEAN, ok \in BOOLEAN :
        LET l == [h[p] EXCEPT !.fault = IF gid_ok THEN @ ELSE @ \cup {"gid"}]
        IN  h' = [h EXCEPT ![p] =
                    IF ok THEN Return(Sent(l, "success", ok), "OK", 200)
                    ELSE Failed(Sent(l, "success", ok), "send")]
    /\ UNCHANGED <<store, origin, nreq, normVars>>

\* an except clause that sends the retry-later message again when sending it failed
ErrorReply_Retry(p) ==
    /\ h[p].pc = "failed"
    /\ \E ok \in BOOLEAN, again \in BOOLEAN :
        h' = [h EXCEPT ![p] =
                IF ok THEN Return(Sent(@, "error", ok), "OK", 200)
                ELSE Return(Sent(Sent(@, "error", ok), "error", again), "OK", 200)]
    /\ UNCHANGED <<store, origin, nreq, normVars>>

\* an except clause that lets a failed send of the retry-later message escape
ErrorReply_NoSwallow(p) ==
    /\ h[p].pc = "failed"
    /\ \E ok \in BOOLEAN :
        h' = [h EXCEPT ![p] =
                IF ok THEN Return(Sent(@, "error", ok), "OK", 200)
                ELSE Return(Sent(@, "error", ok), "Internal Server Error", 500)]
    /\ UNCHANGED <<store, origin, nreq, normVars>>

\* lines 560-570: the except clause sends the retry-later message, swallowing a failure
ErrorReply(p) ==
    /\ h[p].pc = "failed"
    /\ \E ok \in BOOLEAN : h' = [h EXCEPT ![p] = Return(Sent(@, "error", ok), "OK", 200)]
    /\ UNCHANGED <<store, origin, nreq, normVars>>

\* the instance is free for the next request
Finish(p) ==
    /\ h[p].pc = "done"
    /\ h' = [h EXCEPT ![p] = Idle]
    /\ UNCHANGED <<store, origin, nreq, normVars>>

Step(p) ==
    \/ RetrySkip(p) \/ UrlVerification(p) \/ Dismiss(p) \/ TooLong(p) \/ Mention(p)
    \/ ExtractFault(p) \/ Extract(p) \/ RejectBatch(p) \/ AcceptBatch(p)
    \/ ReadFault(p) \/ ReadRows(p) \/ AppendFault(p) \/ AppendRow(p)
    \/ ReturnRows(p) \/ Reply(p) \/ ErrorReply(p) \/ Finish(p)

\* no other instance is between receiving a request and returning
Quiet(p) == \A q \in Procs \ {p} : h[q].pc = "idle"

\* requests are handled one at a time
Next == \E p \in Procs : Quiet(p) /\ Step(p)

Spec == Init /\ [][Next]_vars

\* the race on the sheet: signed mentions whose extracted lists pass validation
RaceRequests == {[retry |-> Absent, payload |-> Payload("event_callback", Absent, "app_mention", FALSE),
                  sig |-> "valid"]}
RaceBatches == SeqsUpTo({RecAccount, RecManyTags}, MaxBatch) \ {<<>>}
RaceStores == {<<HeaderRow>>, <<HeaderRow, DataRow(<<"x">>), DataRow(<<" ", "7", " ">>), DataRow(<<>>)>>}

InitRace == (\E st \in RaceStores : InitHandler(st)) /\ NormIdle

\* a second instance is started only while the first is busy
Routed(p) == p = 1 \/ h[1].pc # "idle"

RaceStep(p) ==
    \/ Routed(p) /\ MentionOf(p, RaceRequests)
    \/ ExtractOf(p, RaceBatches) \/ AcceptBatch(p)
    \/ ReadRows(p) \/ AppendFault(p) \/ AppendRow(p)
    \/ ReturnRows(p) \/ Reply(p) \/ ErrorReply(p) \/ Finish(p)

\* mentions are handled by instances that run at the same time
NextRace == \E p \in Procs : RaceStep(p)

SpecRace == InitRace /\ [][NextRace]_vars

-----------------------------------------------------------------------------
(* The sheet emptied by hand between requests that do not overlap *)

\* every other instance has returned (its locals are kept until it is reused)
Returned(p) == \A q \in Procs \ {p} : h[q].pc \in {"idle", "done"}

\* line 274 reads whatever the sheet holds: its data rows are deleted while no request
\* is being handled, the header row stays
EmptyStore ==
    /\ \A p \in Procs : h[p].pc \in {"idle", "done"}
    /\ Len(store) > 1
    /\ store' = <<store[1]>>
    /\ origin' = <<origin[1]>>
    /\ UNCHANGED <<nreq, h, normVars>>

EmptiedStep(p) ==
    \/ Routed(p) /\ MentionOf(p, RaceRequests)
    \/ ExtractOf(p, RaceBatches) \/ AcceptBatch(p)
    \/ ReadRows(p) \/ AppendFault(p) \/ AppendRow(p)
    \/ ReturnRows(p) \/ Reply(p) \/ ErrorReply(p) \/ Finish(p)

NextEmptied == (\E p \in Procs : Returned(p) /\ EmptiedStep(p)) \/ EmptyStore

SpecEmptied == InitRace /\ [][NextEmptied]_vars

-----------------------------------------------------------------------------
(* The normalizer on its own: one call of normalize_due_date *)

D_Iso == <<"2", "0", "2", "4", "-", "0", "1", "-", "3", "1">>

DueInputs == {None, Str(<<>>), Str(<<"N", "U", "L", "L">>), Str(<<"N", "o", "n", "e">>),
    Str(D_Iso), Str(D_Iso \o <<"NL">>),
    Str(<<"F1", "F2", "GATSU", "CHUU">>), Str(<<"2", "GATSU", "MATSU">>),
    Str(<<"1", "3", "GATSU", "MATSU">>), Str(<<"0", "GATSU", "MA", "DE">>),
    Str(<<"1", "3", "GATSU", "MATSU", "KON", "GATSU", "MATSU">>),
    Str(<<"KON", "GATSU", "MATSU">>), Str(<<"KON", "GATSU">>), Str(<<"RAI", "GATSU">>),
    Str(<<"RAI", "SHUU">>), Str(<<"KON", "SHUU">>), Str(<<"KON", "SHUU", "MATSU">>),
    Str(<<"3", "NICHI", "GO">>), Str(<<"F1", "0", "NICHI", "I_", "NAI">>),
    Str(<<"0", "0", "0", "0", "0", "0", "0", "0", "0", "0", "3", "NICHI", "MA", "DE">>),
    Str(<<"1", "2", "GATSU", "3", "NICHI", "MA", "DE">>),
    Str(<<"9", "9", "9", "9", "9", "9", "9", "NICHI", "GO">>),
    Str(<<"9", "9", "9", "9", "9", "9", "9", "9", "9", "9", "NICHI", "GO">>),
    Str(<<"x", "y">>)}

Date(y, m, d) == [y |-> y, m |-> m, d |-> d]
NormNows == {Date(2024, 1, 30), Date(2024, 2, 29), Date(2023, 12, 31), Date(2026, 11, 2),
             Date(2025, 12, 15), Date(2100, 2, 10)}

InitNorm ==
    /\ InitHandler(<<HeaderRow>>)
    /\ due_date_str \in DueInputs
    /\ now \in NormNows
    /\ due_result = Pending

\* normalize_due_date(due_date_str) is called
NormalizeCall ==
    /\ due_result = Pending
    /\ due_result' = normalize_due_date(due_date_str, now)
    /\ UNCHANGED <<handlerVars, due_date_str, now>>

NextNorm == NormalizeCall

SpecNorm == InitNorm /\ [][NextNorm]_vars

-----------------------------------------------------------------------------
(* The normalizer over the calendar: month and week expressions on every day *)

\* a number written with full-width digits
FullWidthOf(ds) == [i \in 1..Len(ds) |-> FullWidthDigits[DigitVal(ds[i]) + 1]]

\* the ways the month number n is written: ASCII, full-width, zero-padded
MonthForms(n) == {DigitsOf(n), FullWidthOf(DigitsOf(n)), Fmt(n, 2)}

MonthExpr(ds, suf) == Str(ds \o <<"GATSU">> \o suf)
ThisMonthExpr(suf) == Str(<<"KON", "GATSU">> \o suf)
NextMonthExpr(suf) == Str(<<"RAI", "GATSU">> \o suf)
NextWeekExpr(suf) == Str(<<"RAI", "SHUU">> \o suf)
ThisWeekExpr(suf) == Str(<<"KON", "SHUU">> \o suf)

\* month numbers 0 and 13 are out of range; a bare "今月" or "今週" matches no rule
CalendarInputs ==
    {MonthExpr(ds, suf) : ds \in UNION {MonthForms(n) : n \in 0..13}, suf \in MonthSuffixes}
    \cup {ThisMonthExpr(suf) : suf \in ThisMonthSuffixes \cup {<<>>}}
    \cup {NextMonthExpr(suf) : suf \in ThisMonthSuffixes \cup {<<>>}}
    \cup {NextWeekExpr(suf) : suf \in WeekSuffixes \cup {<<>>}}
    \cup {ThisWeekExpr(suf) : suf \in WeekSuffixes \cup {<<>>}}

\* datetime.now(): every day of a leap year, and month ends of a common year, of a
\* century year that is not a leap year and of one that is
CalendarNows ==
    {dt \in [y : {2024}, m : 1..12, d : 1..31] : dt.d <= LastDay(dt.y, dt.m)}
    \cup {Date(2025, 1, 31), Date(2025, 2, 28), Date(2025, 12, 31), Date(2026, 11, 2),
          Date(2100, 1, 15), Date(2100, 2, 28), Date(2400, 1, 31), Date(2400, 2, 29)}

InitCalendar ==
    /\ InitHandler(<<HeaderRow>>)
    /\ due_date_str \in CalendarInputs
    /\ now \in CalendarNows
    /\ due_result = Pending

SpecCalendar == InitCalendar /\ [][NextNorm]_vars

-----------------------------------------------------------------------------
(* Claims *)

\* a first-column cell that is a non-negative integer string, and its value
IsNatCell(c) == Strip(c) # <<>> /\ \A i \in 1..Len(Strip(c)) : IsDecimalChar(Strip(c)[i])
NatOfCell(c) == IntOf(Strip(c))

\* the numbers in the first column of the non-header rows
ExistingNos(rows) == {NatOfCell(rows[k][1]) : k \in {k \in 2..Len(rows) : IsNatCell(rows[k][1])}}
MaxExisting(rows) ==
    IF ExistingNos(rows) = {} THEN 0
    ELSE CHOOSE m \in ExistingNos(rows) : \A x \in ExistingNos(rows) : x <= m

\* the rows of the sheet a request appended
RowsOf(rid) == {j \in 1..Len(store) : origin[j].req = rid}
Written == {j \in 1..Len(store) : origin[j].req # 0}

\* the instances that hold a request
Busy == {p \in Procs : h[p].reqid # 0}

\* row j holds the record rec
HoldsRecord(j, rec) ==
    /\ store[j][10] = CellOf(rec.target_name)
    /\ store[j][11] = CellOf(rec.target_email)
    /\ store[j][12] = CellOf(rec.due_date)

\* C1: in one call of write_to_spreadsheet, record i of the batch (1-based, in input
\* order) gets the number max_existing + i, max_existing being the largest first-column
\* value of the non-header rows read that is a non-negative integer string (0 if none);
\* the numbers returned are these, in batch order.
C1_SequenceNumbers ==
    \A p \in Busy :
        LET l == h[p]
            base == MaxExisting(l.existing_rows)
        IN  /\ \A j \in RowsOf(l.reqid) :
                /\ store[j][1] = DigitsOf(base + origin[j].idx)
                /\ HoldsRecord(j, l.batch[origin[j].idx])
            /\ l.written_inquiry_nos # <<>> =>
                l.written_inquiry_nos = [i \in 1..Len(l.batch) |-> base + i]

C1_Witness ==
    \E p \in Busy :
        /\ h[p].pc = "done"
        /\ h[p].written_inquiry_nos = <<8, 9>>
        /\ \E k \in 2..Len(h[p].existing_rows) : ~IsNatCell(h[p].existing_rows[k][1])
        /\ Cardinality(RowsOf(h[p].reqid)) = 2

\* the batch must be rejected: it is empty, or some record carries the account
\* management tag without an email address
Rejectable(b) ==
    \/ b = <<>>
    \/ \E i \in 1..Len(b) :
        /\ \E t \in 1..Len(b[i].tags.val) : b[i].tags.val[t] = ACCT
        /\ b[i].target_email \in {None, Str(<<>>)}

\* C2: validation is all-or-nothing: when the extracted batch is empty, or a record at
\* any position has the account management tag and no email address, no row of the
\* batch is appended, even when other records of the batch are valid.
C2_AllOrNothing ==
    \A p \in Busy :
        (h[p].pc \notin {"idle", "extract"} /\ Rejectable(h[p].batch)) =>
            /\ RowsOf(h[p].reqid) = {}
            /\ h[p].pc \notin {"read", "append", "reply"}
            /\ h[p].written_row_numbers = <<>>

C2_Witness ==
    \E p \in Busy :
        /\ h[p].pc = "done"
        /\ Len(h[p].batch) = 2
        /\ ~Rejectable(<<h[p].batch[1]>>)
        /\ Rejectable(<<h[p].batch[2]>>)
        /\ h[p].sends = <<<<"need_email", TRUE>>>>
        /\ RowsOf(h[p].reqid) = {}

\* C3: across invocations that do not overlap, every number a call assigns is greater
\* than every number in the sheet when the call read it, and no two rows written by
\* these invocations carry the same number.
C3_Monotonic ==
    /\ \A j \in Written : \A k \in 1..origin[j].nread :
            IsNatCell(store[k][1]) => NatOfCell(store[j][1]) > NatOfCell(store[k][1])
    /\ \A j \in Written : \A k \in Written : j # k => store[j][1] # store[k][1]

C3_Witness ==
    \E j \in Written : \E k \in Written :
        /\ origin[j].req # origin[k].req
        /\ origin[k].nread >= j
        /\ \E i \in 2..origin[j].nread : IsNatCell(store[i][1])

\* a returned row position that is not where the row is
Misplaced(p, i) ==
    LET pos == h[p].written_row_numbers[i]
    IN  ~(pos <= Len(store) /\ origin[pos].req = h[p].reqid /\ origin[pos].idx = i)

\* C4: two invocations that run at the same time can give the same number to different
\* rows and can return a row position that is not where the row landed; both happen
\* only when another invocation appended between the read and the append.
C4_OnlyWhenInterleaved ==
    /\ \A j \in Written :
        j # origin[j].nread + origin[j].idx =>
            \E k \in (origin[j].nread + 1)..(j - 1) : origin[k].req # origin[j].req
    /\ \A j \in Written : \A k \in Written :
        (j < k /\ origin[j].req # origin[k].req /\ store[j][1] = store[k][1]) =>
            origin[k].nread < j

C4_Witness ==
    /\ \E j \in Written : \E k \in Written :
        origin[j].req # origin[k].req /\ store[j][1] = store[k][1]
    /\ \E p \in Busy : \E i \in 1..Len(h[p].written_row_numbers) : Misplaced(p, i)

\* C5: without a concurrent writer, the row position returned for record i (the number
\* of rows read plus i) is the position of that record's row in the sheet.
C5_RowPositions ==
    \A p \in Busy : \A i \in 1..Len(h[p].written_row_numbers) :
        /\ h[p].written_row_numbers[i] = Len(h[p].existing_rows) + i
        /\ ~Misplaced(p, i)
        /\ HoldsRecord(h[p].written_row_numbers[i], h[p].batch[i])

C5_Witness ==
    \E p \in Busy :
        /\ h[p].pc = "done"
        /\ h[p].reqid = 2
        /\ Len(h[p].written_row_numbers) = 2
        /\ RowsOf(1) # {}

\* the faults of the language-model call, of parsing its answer, and of reading or
\* appending rows
CollaboratorFaults == {"llm", "parse", "open", "read", "append"}

HasSent(l, kind) == \E i \in 1..Len(l.sends) : l.sends[i][1] = kind

\* C6: for a mention, a fault of the language-model call, of parsing its answer, or of a
\* read or append on the sheet does not escape the handler: the retry-later message is
\* attempted, a failure to send it is swallowed, the handler returns ("OK", 200), and no
\* confirmation is sent.
C6_FaultHandled ==
    \A p \in Busy :
        (h[p].fault \cap CollaboratorFaults # {}) =>
            /\ ~HasSent(h[p], "success")
            /\ h[p].pc \in {"failed", "done"}
            /\ h[p].pc = "done" =>
                /\ h[p].resp = Resp("OK", 200)
                /\ h[p].sends # <<>>
                /\ h[p].sends[Len(h[p].sends)][1] = "error"

C6_Witness ==
    \E p \in Busy :
        /\ h[p].pc = "done"
        /\ "append" \in h[p].fault
        /\ RowsOf(h[p].reqid) # {}
        /\ h[p].sends = <<<<"error", FALSE>>>>
        /\ h[p].resp = Resp("OK", 200)

\* the request was answered at once: no extraction, no sheet access, no reply
Untouched(l) ==
    /\ l.pc = "done"
    /\ l.batch = <<>> /\ l.fault = {} /\ l.sends = <<>>
    /\ l.existing_rows = <<>> /\ RowsOf(l.reqid) = {}

\* C7: a request that carries the X-Slack-Retry-Num header is answered ("", 200) and
\* skipped entirely, whatever its payload.
C7_RetrySkipped ==
    \A p \in Busy :
        h[p].req.retry # Absent => Untouched(h[p]) /\ h[p].resp = Resp("", 200)

\* the answer to a URL verification request
ChallengeAnswered(l) ==
    /\ Untouched(l)
    /\ l.resp = IF Present(l.req.payload.challenge)
                THEN Resp(l.req.payload.challenge, 200)
                ELSE Resp("Missing challenge", 400)

\* C8 as stated: every url_verification request is answered with its challenge and 200
\* (400 when the challenge is missing), whatever its signature, and nothing else happens.
C8_ChallengeAlways ==
    \A p \in Busy : h[p].req.payload.type = "url_verification" => ChallengeAnswered(h[p])

\* C8: a url_verification request without a non-empty X-Slack-Retry-Num header is
\* answered with its challenge and 200 (400 when the challenge is missing or empty),
\* whatever its signature, and nothing else happens.
C8_ChallengeUnlessRetry ==
    \A p \in Busy :
        (h[p].req.payload.type = "url_verification" /\ ~Present(h[p].req.retry)) =>
            ChallengeAnswered(h[p])

C8_Witness ==
    \E p \in Busy :
        /\ h[p].req.payload.type = "url_verification"
        /\ h[p].req.sig = "invalid"
        /\ h[p].resp = Resp("ch", 200)

\* C9: every appended row has 14 columns, columns 5-9 being the 5 tag slots: slot s
\* holds the record's s-th tag, or "" when the record has no s-th tag or it is null or
\* empty; tags beyond the fifth are dropped.
C9_FiveTagSlots ==
    \A p \in Busy : \A j \in RowsOf(h[p].reqid) :
        LET tags == h[p].batch[origin[j].idx].tags.val
        IN  /\ Len(store[j]) = 14
            /\ \A s \in 1..5 :
                store[j][4 + s] = IF s <= Len(tags) /\ tags[s] \notin {NoneTag, ""} THEN tags[s] ELSE ""

C9_Witness ==
    \E p \in Busy :
        /\ h[p].pc = "done"
        /\ \E j \in RowsOf(h[p].reqid) : Len(h[p].batch[origin[j].idx].tags.val) > 5
        /\ \E j \in RowsOf(h[p].reqid) :
            LET tags == h[p].batch[origin[j].idx].tags.val
            IN  Len(tags) < 5 /\ \E s \in 1..Len(tags) : tags[s] = NoneTag

\* the inputs for which normalize_due_date answers None
NullLike(v) == v = None \/ Lower(v.val) \in {<<>>, <<"n", "u", "l", "l">>, <<"n", "o", "n", "e">>}

\* C10: normalize_due_date never fails: it returns None for null, "" and "null"/"none",
\* a YYYY-MM-DD input unchanged, a resolved YYYY-MM-DD date, or the input unchanged,
\* also when a matched number is out of range or very large.
C10_NeverFails ==
    due_result # Pending =>
        /\ due_result.kind \in {"None", "str"}
        /\ NullLike(due_date_str) <=> due_result = None
        /\ due_result.kind = "str" =>
            \/ due_result = due_date_str
            \/ Len(due_result.val) = 10 /\ IsIsoDate(due_result.val)
        /\ (~NullLike(due_date_str) /\ IsIsoDate(due_date_str.val)) => due_result = due_date_str

\* the length of a month of the Gregorian calendar
MonthEnd(y, m) ==
    IF m = 2 THEN (IF y % 400 = 0 \/ (y % 4 = 0 /\ y % 100 # 0) THEN 29 ELSE 28)
    ELSE IF m \in {4, 6, 9, 11} THEN 30 ELSE 31

\* C11: month expressions resolve to the last calendar day of their month, whatever the
\* current date: "N月" + 中/末/まで with N in 1..12 (ASCII or full-width digits) to the
\* last day of month N of the current year, "今月" + 末/中/まで to the last day of the
\* current month, "来月" to the last day of the next month (31 January of the next year
\* in December).
C11_MonthEnds ==
    due_result # Pending =>
        /\ \A n \in 1..12 : \A ds \in MonthForms(n) : \A suf \in MonthSuffixes :
                due_date_str = MonthExpr(ds, suf) =>
                    due_result = Str(FormatDate(now.y, n, MonthEnd(now.y, n)))
        /\ \A suf \in ThisMonthSuffixes :
                due_date_str = ThisMonthExpr(suf) =>
                    due_result = Str(FormatDate(now.y, now.m, MonthEnd(now.y, now.m)))
        /\ \A suf \in ThisMonthSuffixes \cup {<<>>} :
                due_date_str = NextMonthExpr(suf) =>
                    due_result = IF now.m = 12 THEN Str(FormatDate(now.y + 1, 1, 31))
                                 ELSE Str(FormatDate(now.y, now.m + 1, MonthEnd(now.y, now.m + 1)))

C11_Witness ==
    /\ now = Date(2024, 12, 31)
    /\ due_date_str = MonthExpr(<<"F2">>, <<"CHUU">>)
    /\ due_result = Str(<<"2", "0", "2", "4", "-", "0", "2", "-", "2", "9">>)

\* the day after dt, and the day k days after dt
NextDay(dt) ==
    IF dt.d < MonthEnd(dt.y, dt.m) THEN [dt EXCEPT !.d = dt.d + 1]
    ELSE IF dt.m < 12 THEN [y |-> dt.y, m |-> dt.m + 1, d |-> 1]
    ELSE [y |-> dt.y + 1, m |-> 1, d |-> 1]
RECURSIVE DaysAfter(_, _)
DaysAfter(dt, k) == IF k = 0 THEN dt ELSE DaysAfter(NextDay(dt), k - 1)

\* the leap years up to year y, and the days from Monday 1 January 2024 to dt, a day
\* not before it
LeapYearsTo(y) == y \div 4 - y \div 100 + y \div 400
RECURSIVE DaysSince2024(_)
DaysSince2024(dt) ==
    IF dt.m > 1 THEN MonthEnd(dt.y, dt.m - 1) + DaysSince2024([dt EXCEPT !.m = dt.m - 1])
    ELSE 365 * (dt.y - 2024) + (LeapYearsTo(dt.y - 1) - LeapYearsTo(2023)) + (dt.d - 1)

\* 0 for a Monday .. 6 for a Sunday
DayOfWeek(dt) == DaysSince2024(dt) % 7

\* C15: week expressions resolve to a Sunday on every weekday (Monday = 0 .. Sunday = 6):
\* "来週" (+ 末/まで or nothing) to today + (7 - weekday) + 6 days, 7 to 13 days ahead;
\* "今週" + 末/まで to today + (6 - weekday) days, 0 to 6 days ahead.
C15_WeekSundays ==
    due_result # Pending =>
        /\ \A suf \in WeekSuffixes \cup {<<>>} :
                due_date_str = NextWeekExpr(suf) =>
                    LET k == (7 - DayOfWeek(now)) + 6
                        r == DaysAfter(now, k)
                    IN  /\ k \in 7..13
                        /\ DayOfWeek(r) = 6
                        /\ due_result = Str(FormatDate(r.y, r.m, r.d))
        /\ \A suf \in WeekSuffixes :
                due_date_str = ThisWeekExpr(suf) =>
                    LET k == 6 - DayOfWeek(now)
                        r == DaysAfter(now, k)
                    IN  /\ k \in 0..6
                        /\ DayOfWeek(r) = 6
                        /\ due_result = Str(FormatDate(r.y, r.m, r.d))

C15_Witness ==
    /\ now = Date(2024, 12, 29)
    /\ due_date_str = NextWeekExpr(<<>>)
    /\ due_result = Str(<<"2", "0", "2", "5", "-", "0", "1", "-", "0", "5">>)

\* the numbers the call of instance p has given to the rows it appended
AssignedBy(p) == {h[p].max_inquiry_no + i : i \in 1..Len(h[p].written_row_numbers)}

\* C12 as stated: a number once assigned is never reused, even after the data rows of
\* the sheet were removed between two invocations that do not overlap: the later one
\* assigns numbers greater than all numbers assigned before.
C12_NeverReused ==
    \A p \in Busy : \A q \in Busy :
        h[p].reqid < h[q].reqid =>
            \A a \in AssignedBy(p) : \A b \in AssignedBy(q) : b > a

\* C12: a later invocation that does not overlap assigns numbers greater than every
\* number in the sheet when it reads it, hence greater than the numbers assigned before
\* while the row with the largest of them is still there; once no numbered row is left
\* (the data rows were removed) it numbers from 1 again.
C12_NoReuseWhileKept ==
    \A q \in Busy :
        /\ \A b \in AssignedBy(q) : \A n \in ExistingNos(h[q].existing_rows) : b > n
        /\ \A p \in Busy :
            (/\ h[p].reqid < h[q].reqid
             /\ \E a \in AssignedBy(p) :
                    /\ \A x \in AssignedBy(p) : x <= a
                    /\ a \in ExistingNos(h[q].existing_rows)) =>
                \A a \in AssignedBy(p) : \A b \in AssignedBy(q) : b > a
        /\ ExistingNos(h[q].existing_rows) = {} =>
                AssignedBy(q) = 1..Len(h[q].written_row_numbers)

C12_Witness ==
    \E p \in Busy : \E q \in Busy :
        /\ h[p].reqid < h[q].reqid
        /\ AssignedBy(p) = {8, 9}
        /\ RowsOf(h[p].reqid) = {}
        /\ h[q].existing_rows = <<HeaderRow>>
        /\ h[q].pc = "done"
        /\ AssignedBy(q) = {1, 2}

\* C13 as stated: within one request, after a send to Slack has failed, the handler
\* makes no further send attempt.
C13_NoSendAfterFailure ==
    \A p \in Busy : \A i \in 1..Len(h[p].sends) :
        ~h[p].sends[i][2] => i = Len(h[p].sends)

\* C13: no message is sent twice within one request; after a failed send of a rejection
\* message or of the confirmation the handler makes one more attempt, which carries the
\* retry-later message, and none after that; after a failed send of the too-long
\* message or of the retry-later message it makes none.
C13_OneFallbackSend ==
    \A p \in Busy :
        LET s == h[p].sends
        IN  /\ \A i \in 1..Len(s) : \A j \in 1..Len(s) : i < j => s[i][1] # s[j][1]
            /\ \A i \in 1..Len(s) :
                (~s[i][2] /\ i < Len(s)) =>
                    /\ s[i][1] \in {"empty", "need_email", "success"}
                    /\ Len(s) = i + 1
                    /\ s[i + 1][1] = "error"
            /\ \A i \in 1..Len(s) :
                (~s[i][2] /\ s[i][1] \in {"empty", "need_email", "success"} /\ h[p].pc = "done") =>
                    i < Len(s)

C13_Witness ==
    \E p \in Busy :
        /\ h[p].pc = "done"
        /\ h[p].sends = <<<<"success", FALSE>>, <<"error", FALSE>>>>
        /\ h[p].resp = Resp("OK", 200)

\* C14: write_to_spreadsheet does not roll back: when the append of record k > 1 of a
\* batch raises, the k-1 rows already appended stay in the sheet, the call returns no
\* numbers and no row positions, records k..n are never appended, and the requester is
\* sent the retry-later message, not a confirmation.
C14_NoRollback ==
    \A p \in Busy :
        ("append" \in h[p].fault /\ NextIdx(h[p]) >= 1) =>
            LET l == h[p]
                k == NextIdx(l) + 1
            IN  /\ {origin[j].idx : j \in RowsOf(l.reqid)} = 1..(k - 1)
                /\ \A j \in RowsOf(l.reqid) :
                        /\ j = Len(l.existing_rows) + origin[j].idx
                        /\ HoldsRecord(j, l.batch[origin[j].idx])
                /\ k <= Len(l.batch)
                /\ l.written_inquiry_nos = <<>>
                /\ l.pc \in {"failed", "done"}
                /\ ~HasSent(l, "success")
                /\ l.pc = "done" => \E ok \in BOOLEAN : l.sends = <<<<"error", ok>>>>

C14_Witness ==
    \E p \in Busy :
        /\ h[p].pc = "done"
        /\ "append" \in h[p].fault
        /\ Len(h[p].batch) = 2
        /\ Cardinality(RowsOf(h[p].reqid)) = 1
        /\ h[p].sends = <<<<"error", TRUE>>>>

====
